---- MODULE Spec2Model ----
(***************************************************************************)
(* Presence-event pipeline of the security camera agent:                   *)
(* EventHandler (handle / shutdown / _fire_event) and ClipWriter of         *)
(* agent/src/event_handler.py, with the settings of agent/src/config.py.   *)
(*                                                                         *)
(* Time is the value of time.monotonic() in whole seconds.  The clip       *)
(* duration is kept in half seconds so that int(CLIP_DURATION_S*CLIP_FPS)  *)
(* can be a truncation of a fractional product.                            *)
(***************************************************************************)
EXTENDS Integers, Sequences, FiniteSets, TLC

\* ------------------------------------------------------------------ bounds
MaxClock == 7      \* largest value of time.monotonic() that is explored
MaxStep == 3       \* largest time between two consecutive handle calls
MaxPeople == 2     \* largest number of detections in one frame

\* --------------------------------------------------- settings (config.py)
CooldownChoices == {0, 3}         \* EVENT_COOLDOWN_SECONDS
GraceChoices == {2}               \* EventHandler.ABSENCE_GRACE_SECONDS
ClipDurationChoices == {1, 3, 4}  \* CLIP_DURATION_S, in half seconds
ClipFpsChoices == {1, 2}          \* CLIP_FPS

\* the settings a session may start with: every timing, with every clip length
\* where snapshots and clips are both saved and Telegram is set up, and one
\* clip length under a positive cooldown otherwise.  TELEGRAM_BOT_TOKEN and TELEGRAM_CHAT_ID say whether
\* the environment variable of that name is set to a non-empty string, and
\* CLIPS_DIR_WRITABLE whether cv2.VideoWriter can open a new file under
\* config.CLIPS_DIR.
Settings ==
    [EVENT_COOLDOWN_SECONDS : CooldownChoices,
     ABSENCE_GRACE_SECONDS : GraceChoices,
     SAVE_SNAPSHOTS : BOOLEAN,
     SAVE_CLIPS : BOOLEAN,
     CLIP_DURATION_HALF_S : ClipDurationChoices,
     CLIP_FPS : ClipFpsChoices,
     TELEGRAM_BOT_TOKEN : BOOLEAN,
     TELEGRAM_CHAT_ID : BOOLEAN,
     CLIPS_DIR_WRITABLE : BOOLEAN]

Configs ==
    {c \in Settings :
        /\ c.CLIPS_DIR_WRITABLE
        /\ \/ c.SAVE_SNAPSHOTS /\ c.SAVE_CLIPS
                 /\ c.TELEGRAM_BOT_TOKEN /\ c.TELEGRAM_CHAT_ID
           \/ c.CLIP_DURATION_HALF_S = 4 /\ c.CLIP_FPS = 2
                 /\ c.TELEGRAM_BOT_TOKEN = c.TELEGRAM_CHAT_ID
                 /\ c.EVENT_COOLDOWN_SECONDS > 0
           \/ c.CLIP_DURATION_HALF_S = 4 /\ c.CLIP_FPS = 2
                 /\ c.SAVE_SNAPSHOTS /\ c.SAVE_CLIPS
                 /\ c.EVENT_COOLDOWN_SECONDS > 0}

VARIABLES
    config,            \* the settings of this session (fixed after Init)
    clock,             \* time.monotonic() as of the latest call
    phase,             \* "running" until shutdown() has run, then "ended"
    last_event_time,   \* self._last_event_time
    active_clip,       \* self._active_clip: <<>> is None, <<c>> a ClipWriter
    person_present,    \* self._person_present
    last_seen_time,    \* self._last_seen_time
    open_writers,      \* cv2.VideoWriter objects constructed and not released
    effects,           \* what the latest call did, in program order
    call,              \* the latest call: its name, inputs and the state it found
    ret,               \* the value the latest handle call returned
    hist,              \* history of the session, observed from the effects
    loop,              \* main(): its position, its locals and what its latest iteration did
    senders,           \* the daemon threads the notifier has started
    utc,               \* the backend's datetime.now(timezone.utc)
    db,                \* the backend's database: the committed rows and the row locks
    requests,          \* the backend's requests in flight, each with its position and session
    outbox,            \* the messages the backend has sent through the Telegram API
    sockets,           \* the websockets accepted on /ws/agent
    active_connections \* manager.active_connections

server_vars == <<utc, db, requests, outbox, sockets, active_connections>>

vars == <<config, clock, phase, last_event_time, active_clip, person_present,
          last_seen_time, open_writers, effects, call, ret, hist, loop, senders,
          server_vars>>

\* -------------------------------------------------- the backend at start
ControlMode == {"BOTH", "DASHBOARD_ONLY", "TELEGRAM_ONLY"}

\* a row of devices with the defaults of its columns (threshold in tenths)
Device(token, now) ==
    [device_token |-> token, armed |-> TRUE, threshold |-> 5, cooldown_sec |-> 5,
     control_mode |-> "BOTH", last_seen_at |-> now]

\* a row of pair_codes
PairCode(code, expires) == [pair_code |-> code, expires_at |-> expires, used |-> FALSE]

\* the tables after Base.metadata.create_all, and no row locked
EmptyDb ==
    [pair_codes |-> <<>>, devices |-> <<>>, telegram_links |-> {},
     telegram_updates |-> {}, telegram_otps |-> <<>>, locks |-> {}]

\* the backend as imported: empty tables, manager = ConnectionManager(), no request
ServerInit ==
    /\ utc = 0
    /\ db = EmptyDb
    /\ requests = <<>>
    /\ outbox = <<>>
    /\ sockets = <<>>
    /\ active_connections = <<>>

\* -------------------------------------------------------------- effects
Fx(kind, what, v) == [k |-> kind, m |-> what, v |-> v]
Log(what, v) == Fx("log", what, v)

Count(fx, kind, what) ==
    Cardinality({i \in 1..Len(fx) : fx[i].k = kind /\ fx[i].m = what})

\* ------------------------------------------------------------ notifier
\* a notifier that takes either credential for a set-up
is_configured_either(cfg) == cfg.TELEGRAM_BOT_TOKEN \/ cfg.TELEGRAM_CHAT_ID

\* notifier._is_configured
is_configured(cfg) == cfg.TELEGRAM_BOT_TOKEN /\ cfg.TELEGRAM_CHAT_ID

\* notifier.send_alert: what the call does on the caller's thread
send_alert(cfg, n) ==
    IF ~is_configured(cfg)
    THEN <<Log("[Telegram] Not configured", 0)>>
    ELSE <<Fx("thread", "_send_photo_bytes", n)>>

\* notifier.send_session_start
send_session_start(cfg) ==
    IF ~is_configured(cfg) THEN <<>> ELSE <<Fx("thread", "_send_text", 0)>>

\* notifier.send_session_end
send_session_end(cfg) ==
    IF ~is_configured(cfg) THEN <<>> ELSE <<Fx("thread", "_send_text", 1)>>

\* ---------------------------------------------------------- ClipWriter
\* int(x) of a non-negative rational x = num / den
IntTrunc(num, den) == num \div den

\* self._max_frames = int(config.CLIP_DURATION_S * config.CLIP_FPS)
MaxFrames(cfg) == IntTrunc(cfg.CLIP_DURATION_HALF_S * cfg.CLIP_FPS, 2)

\* ClipWriter.__init__; cv2.VideoWriter does not raise when it cannot open the
\* file: the writer it returns is not opened and ignores what is written to it
ClipWriterInit(cfg) ==
    [written |-> 0, max_frames |-> MaxFrames(cfg), opened |-> cfg.CLIPS_DIR_WRITABLE]

\* a clip that takes one frame more than its target
is_finished_late(c) == c.written > c.max_frames

\* ClipWriter.is_finished
is_finished(c) == c.written >= c.max_frames

\* ClipWriter.write: the clip after the call
write(c) == IF ~is_finished(c) THEN [c EXCEPT !.written = @ + 1] ELSE c

\* ClipWriter.write: what the call does to the file
write_fx(c) ==
    IF ~is_finished(c) /\ c.opened THEN <<Fx("clip", "write", c.written + 1)>> ELSE <<>>

\* ------------------------------------------------------- EventHandler
\* the handler object as a record, so that the steps of a call compose
Self ==
    [last_event_time |-> last_event_time,
     active_clip |-> active_clip,
     person_present |-> person_present,
     last_seen_time |-> last_seen_time,
     open_writers |-> open_writers,
     effects |-> <<>>]

\* a handler that closes a finished clip and goes on holding it
FeedClipKeepsRef(s) ==
    IF s.active_clip # <<>>
    THEN LET c == write(s.active_clip[1])
             fx == s.effects \o write_fx(s.active_clip[1])
         IN  IF is_finished(c)
             THEN [s EXCEPT !.effects = fx \o <<Log("Clip saved", c.written),
                                                Fx("clip", "close", c.written)>>,
                            !.open_writers = @ - 1,
                            !.active_clip = <<c>>]
             ELSE [s EXCEPT !.effects = fx, !.active_clip = <<c>>]
    ELSE s

\* handle, "Keep active clip fed regardless of anything else"
FeedClip(s) ==
    IF s.active_clip # <<>>
    THEN LET c == write(s.active_clip[1])
             fx == s.effects \o write_fx(s.active_clip[1])
         IN  IF is_finished(c)
             THEN [s EXCEPT !.effects = fx \o <<Log("Clip saved", c.written),
                                                Fx("clip", "close", c.written)>>,
                            !.open_writers = @ - 1,
                            !.active_clip = <<>>]
             ELSE [s EXCEPT !.effects = fx, !.active_clip = <<c>>]
    ELSE s

\* an event that opens its clip whether or not one is being recorded
ClipGuardAlways(cfg, s) == cfg.SAVE_CLIPS

\* _fire_event, "Clip": the guard of the clip branch
ClipGuard(cfg, s) == cfg.SAVE_CLIPS /\ s.active_clip = <<>>

\* an event whose clip starts one frame late: the trigger frame is not written
FireEventLate(cfg, s, n) ==
    LET s1 == [s EXCEPT !.effects = Append(@, Log("PERSON DETECTED", n))]
        s2 == IF cfg.SAVE_SNAPSHOTS
              THEN [s1 EXCEPT !.effects = @ \o <<Fx("file", "snapshot", n),
                                                 Log("Snapshot saved", n)>>]
              ELSE s1
        c0 == ClipWriterInit(cfg)
        s3 == IF ClipGuard(cfg, s2)
              THEN [s2 EXCEPT !.active_clip = <<c0>>,
                              !.open_writers = @ + 1,
                              !.effects = @ \o <<Fx("clip", "open", c0.max_frames),
                                                 Log("Recording clip", c0.max_frames)>>]
              ELSE s2
    IN  [s3 EXCEPT !.effects = Append(@, Fx("notify", "send_alert", n))
                                  \o send_alert(cfg, n)]

\* _fire_event
FireEvent(cfg, s, n) ==
    LET s1 == [s EXCEPT !.effects = Append(@, Log("PERSON DETECTED", n))]
        s2 == IF cfg.SAVE_SNAPSHOTS
              THEN [s1 EXCEPT !.effects = @ \o <<Fx("file", "snapshot", n),
                                                 Log("Snapshot saved", n)>>]
              ELSE s1
        c0 == ClipWriterInit(cfg)
        s3 == IF ClipGuard(cfg, s2)
              THEN [s2 EXCEPT !.active_clip = <<write(c0)>>,
                              !.open_writers = @ + 1,
                              !.effects = @ \o <<Fx("clip", "open", c0.max_frames)>>
                                            \o write_fx(c0)
                                            \o <<Log("Recording clip", c0.max_frames)>>]
              ELSE s2
    IN  [s3 EXCEPT !.effects = Append(@, Fx("notify", "send_alert", n))
                                  \o send_alert(cfg, n)]

\* a handler without the cooldown gate
CooldownOkNoGate(cfg, s, now) == TRUE

\* a handler whose cooldown gate is strict
CooldownOkStrict(cfg, s, now) == (now - s.last_event_time) > cfg.EVENT_COOLDOWN_SECONDS

\* a handler whose first event of a session is exempt from the cooldown
CooldownOkFresh(cfg, s, now) ==
    s.last_event_time = 0 \/ (now - s.last_event_time) >= cfg.EVENT_COOLDOWN_SECONDS

\* handle, the cooldown gate of a new arrival
CooldownOk(cfg, s, now) == (now - s.last_event_time) >= cfg.EVENT_COOLDOWN_SECONDS

\* a handler without the grace period: one empty frame is a departure
DepartedNoGrace(cfg, s, now) == s.person_present

\* a handler whose grace period has to be exceeded
DepartedStrict(cfg, s, now) ==
    s.person_present /\ (now - s.last_seen_time) > cfg.ABSENCE_GRACE_SECONDS

\* a handler that confirms a departure without looking at the presence flag
DepartedNoFlag(cfg, s, now) == (now - s.last_seen_time) >= cfg.ABSENCE_GRACE_SECONDS

\* a handler that waits for two grace periods
DepartedAfterTwoGraces(cfg, s, now) ==
    s.person_present /\ (now - s.last_seen_time) >= 2 * cfg.ABSENCE_GRACE_SECONDS

\* handle, the absence test of an empty frame
Departed(cfg, s, now) ==
    s.person_present /\ (now - s.last_seen_time) >= cfg.ABSENCE_GRACE_SECONDS

\* a handler that takes every frame with detections for a new arrival
NewArrivalAlways(s) == TRUE

\* handle, "if not self._person_present": a frame with detections is a new arrival
NewArrival(s) == ~s.person_present

\* a handler whose cooldown holds back the event only, not the presence flag
ArrivalNotifyOnly(cfg, s, n, now) ==
    IF (now - s.last_event_time) >= cfg.EVENT_COOLDOWN_SECONDS
    THEN FireEvent(cfg,
                   [s EXCEPT !.person_present = TRUE, !.last_event_time = now],
                   n)
    ELSE [s EXCEPT !.person_present = TRUE]

\* a handler in which a suppressed arrival starts the cooldown again
ArrivalRestartsCooldown(cfg, s, n, now) ==
    IF CooldownOk(cfg, s, now)
    THEN FireEvent(cfg,
                   [s EXCEPT !.person_present = TRUE, !.last_event_time = now],
                   n)
    ELSE [s EXCEPT !.last_event_time = now]

\* handle, "NEW ARRIVAL": the event fires behind the cooldown gate, or nothing happens
Arrival(cfg, s, n, now) ==
    IF CooldownOk(cfg, s, now)
    THEN FireEvent(cfg,
                   [s EXCEPT !.person_present = TRUE, !.last_event_time = now],
                   n)
    ELSE s

\* a handler that tests the absence on every frame, before it looks at the
\* detections
PresenceDepartsFirst(cfg, s, n, now) ==
    LET s0 == IF Departed(cfg, s, now)
              THEN [s EXCEPT !.person_present = FALSE,
                             !.effects = Append(@, Log("Person left the frame", 0))]
              ELSE s
    IN  IF n > 0
        THEN LET s1 == [s0 EXCEPT !.last_seen_time = now]
             IN  IF NewArrival(s1) THEN Arrival(cfg, s1, n, now) ELSE s1
        ELSE s0

\* handle, "Presence-state machine"
Presence(cfg, s, n, now) ==
    IF n > 0
    THEN LET s1 == [s EXCEPT !.last_seen_time = now]
         IN  IF NewArrival(s1) THEN Arrival(cfg, s1, n, now) ELSE s1
    ELSE IF Departed(cfg, s, now)
         THEN [s EXCEPT !.person_present = FALSE,
                        !.effects = Append(@, Log("Person left the frame", 0))]
         ELSE s

\* an alert flag that forgets the clip that is being recorded
AlertActivePresenceOnly(s) == s.person_present

\* handle, the returned alert flag
AlertActive(s) == s.person_present \/ (s.active_clip # <<>>)

\* EventHandler.handle as a function of the handler, the clock and the frame
handle(cfg, s, n, now) == Presence(cfg, FeedClip(s), n, now)

\* EventHandler.shutdown
shutdown(cfg, s) ==
    LET s1 == IF s.active_clip # <<>>
              THEN [s EXCEPT !.effects = @ \o <<Fx("clip", "close", s.active_clip[1].written),
                                                Log("Clip finalised on shutdown",
                                                    s.active_clip[1].written)>>,
                             !.open_writers = @ - 1,
                             !.active_clip = <<>>]
              ELSE s
    IN  [s1 EXCEPT !.effects = @ \o <<Log("Security camera session ended", 0),
                                      Fx("notify", "send_session_end", 0)>>
                                  \o send_session_end(cfg)]

\* ------------------------------------------------------------- history
\* events fired by a call, read off what it logged
Fired(fx) == Count(fx, "log", "PERSON DETECTED")

\* clips opened by a call
Opened(fx) == Count(fx, "clip", "open")

\* the mark of a time that does not exist yet
NoTime == 0 - 1

HistInit ==
    [last_fire |-> NoTime,      \* time of the latest fired event
     prev_fire |-> NoTime,      \* time of the fired event before that one
     last_det |-> NoTime,       \* time of the latest frame with a detection
     in_visit |-> FALSE,        \* a run of detections is going on
     visit_cool_ok |-> FALSE,   \* the cooldown was over at the run's first frame
     visit_first_fired |-> FALSE, \* an event fired on the run's first frame
     visit_fires |-> 0,         \* events fired during the run (stops at MaxVisitFires)
     visit_gap |-> FALSE,       \* the run has had a frame without a detection
     file_frames |-> 0,         \* frames written to the clip file that is open
     closed_frames |-> NoTime,  \* frames in the file the latest call closed, if any
     owed_clip |-> FALSE]       \* an event fired and no clip was opened for it yet

MaxVisitFires == 2

\* the debounce anchor as the data model states it: the time the last event
\* fired, 0 before the first one
Anchor(h) == IF h.last_fire = NoTime THEN 0 ELSE h.last_fire

Plus(k, d) == IF k + d > MaxVisitFires THEN MaxVisitFires ELSE k + d

\* positions of an effect in what a call did
Idx(fx, kind, what) == {i \in 1..Len(fx) : fx[i].k = kind /\ fx[i].m = what}

First(S) == CHOOSE i \in S : \A j \in S : i <= j

\* the clip files after a call that did fx: frames go to the file that is open
\* when they are written
FileHist(h, fx) ==
    LET w == Idx(fx, "clip", "write")
        c == Idx(fx, "clip", "close")
        o == Idx(fx, "clip", "open")
    IN  [h EXCEPT
            !.closed_frames =
                IF c = {} THEN NoTime
                ELSE h.file_frames + Cardinality({i \in w : i < First(c)}),
            !.file_frames =
                IF o # {} THEN Cardinality({i \in w : i > First(o)})
                ELSE IF c # {} THEN 0
                ELSE h.file_frames + Cardinality(w)]

\* the history after a handle call with n detections at time now that did fx
HistAfter(cfg, h, n, now, fx) ==
    LET f == Fired(fx)
        h1 == IF f > 0
              THEN [h EXCEPT !.prev_fire = h.last_fire, !.last_fire = now]
              ELSE h
        h2 == IF n > 0
              THEN IF ~h.in_visit
                   THEN [h1 EXCEPT !.last_det = now,
                                   !.in_visit = TRUE,
                                   !.visit_cool_ok =
                                       (now - Anchor(h)) >= cfg.EVENT_COOLDOWN_SECONDS,
                                   !.visit_first_fired = (f > 0),
                                   !.visit_gap = FALSE,
                                   !.visit_fires = Plus(0, f)]
                   ELSE [h1 EXCEPT !.last_det = now,
                                   !.visit_fires = Plus(@, f)]
              ELSE IF h.in_visit /\ (now - h.last_det) >= cfg.ABSENCE_GRACE_SECONDS
                   THEN [h1 EXCEPT !.in_visit = FALSE]
                   ELSE [h1 EXCEPT !.visit_gap = h.in_visit]
    IN  [FileHist(h2, fx) EXCEPT !.owed_clip =
            IF Opened(fx) > 0 THEN FALSE
            ELSE IF f > 0 /\ cfg.SAVE_CLIPS THEN TRUE
            ELSE @]

\* the state a call found, kept with the call
Pre ==
    [person_present |-> person_present,
     last_seen_time |-> last_seen_time,
     last_event_time |-> last_event_time,
     active_clip |-> active_clip,
     fired_before |-> hist.last_fire # NoTime,
     anchor |-> Anchor(hist)]

\* ------------------------------------------- notifier: the daemon threads
\* a frame buffer: the frame it holds and whether the overlays are drawn on it
NoFrame == [id |-> 0, drawn |-> FALSE]

\* an encoder that hands out a view of the frame buffer
imencode_view(frame) == [ref |-> TRUE, bytes |-> frame]

\* send_alert, cv2.imencode(".jpg", frame) and buf.tobytes(): bytes of their own
imencode(frame) == [ref |-> FALSE, bytes |-> frame]

\* the thread object of threading.Thread(target, args, daemon=True)
Thread(e, frame) ==
    [target |-> e.m,
     arg |-> e.v,
     jpeg |-> IF e.m = "_send_photo_bytes" THEN imencode(frame) ELSE imencode(NoFrame),
     frame_id |-> IF e.m = "_send_photo_bytes" THEN frame.id ELSE 0,
     fresh |-> TRUE,        \* started by the latest call of the handler
     state |-> "started",   \* "done" once the target has returned
     posts |-> 0,           \* requests.post calls made
     warnings |-> 0,        \* entries written to the "security_cam" logger
     sent |-> NoFrame,      \* the image that went out
     buffer_moved |-> FALSE] \* the loop's buffer had changed when it went out

\* a notifier that sends on the caller's thread
thread_run(tasks, t) ==
    Append(tasks, [t EXCEPT !.state = "done", !.posts = 1, !.sent = t.jpeg.bytes])

\* t.start(): the thread runs on its own and the caller goes on
thread_start(tasks, t) == Append(tasks, t)

RECURSIVE StartAll(_, _, _)
StartAll(tasks, fx, frame) ==
    IF fx = <<>> THEN tasks
    ELSE StartAll(IF Head(fx).k = "thread"
                  THEN thread_start(tasks, Thread(Head(fx), frame))
                  ELSE tasks,
                  Tail(fx), frame)

\* the threads are not followed: the handler or the loop is explored alone
SendersOff == [on |-> FALSE, tasks |-> <<>>]

SendersOn == [on |-> TRUE, tasks |-> <<>>]

\* the threads after a call of the handler that did fx with this frame
Dispatch(snd, fx, frame) ==
    IF ~snd.on THEN snd
    ELSE [snd EXCEPT !.tasks =
             StartAll([i \in 1..Len(@) |-> [@[i] EXCEPT !.fresh = FALSE]], fx, frame)]

\* what requests.post can come to: a good response, an error response, or a
\* requests.RequestException (a timeout after 10 s is one)
Outcomes == {"ok", "not_ok", "RequestException"}

\* a sender that tries again after a failure
attempt_retry(t, outcome, buf) ==
    [t EXCEPT !.state = IF outcome = "ok" THEN "done" ELSE "started",
              !.posts = @ + 1,
              !.warnings = @ + (IF outcome = "ok" THEN 0 ELSE 1),
              !.sent = IF t.jpeg.ref THEN buf ELSE t.jpeg.bytes,
              !.buffer_moved = (t.target = "_send_photo_bytes" /\ buf # t.jpeg.bytes)]

\* _send_photo_bytes / _send_text: one request, one warning if it fails
attempt(t, outcome, buf) ==
    [t EXCEPT !.state = "done",
              !.posts = @ + 1,
              !.warnings = @ + (IF outcome = "ok" THEN 0 ELSE 1),
              !.sent = IF t.jpeg.ref THEN buf ELSE t.jpeg.bytes,
              !.buffer_moved = (t.target = "_send_photo_bytes" /\ buf # t.jpeg.bytes)]

\* -------------------------------------------------------------- actions
Min(a, b) == IF a < b THEN a ELSE b

\* EventHandler.__init__
HandlerInit ==
    /\ clock = 0
    /\ phase = "running"
    /\ last_event_time = 0
    /\ active_clip = <<>>
    /\ person_present = FALSE
    /\ last_seen_time = 0
    /\ open_writers = 0
    /\ effects = <<Fx("notify", "send_session_start", 0)>> \o send_session_start(config)
    /\ hist = HistInit
    /\ call = [op |-> "init", now |-> 0, n |-> 0, pre |-> Pre]
    /\ ret = FALSE

\* the handler on its own, driven by arbitrary calls: main() is not running
LoopOff ==
    [pc |-> "off", FRAME_SKIP |-> 1, paused |-> FALSE, frame_count |-> 0,
     detections |-> [n |-> 0, of |-> 0], prev |-> [n |-> 0, of |-> 0],
     step |-> "none", detected |-> FALSE, handled |-> 0, pause_len |-> 0,
     shutdowns |-> 0, frame |-> NoFrame, missed_due |-> FALSE, resumed |-> FALSE]

Init ==
    /\ config \in Configs
    /\ HandlerInit
    /\ loop = LoopOff
    /\ senders = SendersOff
    /\ ServerInit

\* one call of EventHandler.handle(frame, detections) at time now
HandleCall(frame, now, n) ==
    LET s == handle(config, Self, n, now)
    IN  /\ senders' = Dispatch(senders, s.effects, frame)
        /\ clock' = now
        /\ last_event_time' = s.last_event_time
        /\ active_clip' = s.active_clip
        /\ person_present' = s.person_present
        /\ last_seen_time' = s.last_seen_time
        /\ open_writers' = s.open_writers
        /\ effects' = s.effects
        /\ ret' = AlertActive(s)
        /\ call' = [op |-> "handle", now |-> now, n |-> n, pre |-> Pre]
        /\ hist' = HistAfter(config, hist, n, now, s.effects)

Handle ==
    /\ phase = "running"
    /\ \E now \in clock..Min(clock + MaxStep, MaxClock), n \in 0..MaxPeople :
          HandleCall(loop.frame, now, n)
    /\ UNCHANGED <<server_vars, config, phase, loop>>

\* the call of EventHandler.shutdown() at the end of the session
ShutdownCall ==
    /\ LET s == shutdown(config, Self)
       IN  /\ senders' = Dispatch(senders, s.effects, loop.frame)
           /\ active_clip' = s.active_clip
           /\ open_writers' = s.open_writers
           /\ effects' = s.effects
           /\ call' = [op |-> "shutdown", now |-> clock, n |-> 0, pre |-> Pre]
           /\ hist' = FileHist(hist, s.effects)
    /\ phase' = "ended"
    /\ UNCHANGED <<server_vars, config, clock, last_event_time, person_present, last_seen_time, ret>>

Shutdown ==
    /\ phase = "running"
    /\ ShutdownCall
    /\ UNCHANGED loop

Next == Handle \/ Shutdown

Spec == Init /\ [][Next]_vars

\* sessions in which no clip file can be opened
FaultConfigs ==
    {c \in Settings : /\ ~c.CLIPS_DIR_WRITABLE
                      /\ c.SAVE_SNAPSHOTS /\ c.SAVE_CLIPS
                      /\ c.TELEGRAM_BOT_TOKEN /\ c.TELEGRAM_CHAT_ID
                      /\ c.EVENT_COOLDOWN_SECONDS > 0
                      /\ c.CLIP_FPS = 2}

FaultInit ==
    /\ config \in FaultConfigs
    /\ HandlerInit
    /\ loop = LoopOff
    /\ senders = SendersOff
    /\ ServerInit

FaultSpec == FaultInit /\ [][Next]_vars

\* ------------------------------------------------------ main(): the frame loop
MaxFrameCount == 4

\* config.FRAME_SKIP (1 = detect on every frame)
FrameSkipChoices == {1, 2, 3}

\* the settings the frame loop is explored under
MainConfigs ==
    {c \in Configs : /\ c.SAVE_SNAPSHOTS /\ c.SAVE_CLIPS
                     /\ c.TELEGRAM_BOT_TOKEN /\ c.TELEGRAM_CHAT_ID
                     /\ c.EVENT_COOLDOWN_SECONDS > 0
                     /\ c.CLIP_DURATION_HALF_S = 4 /\ c.CLIP_FPS = 2}

\* the keys cv2.waitKey can report: none, q, s, space, + and -; s saves a
\* manual snapshot and + and - move the confidence threshold, which leave the
\* loop's and the handler's variables as they are
Keys == {"", "q", "s", " ", "+", "-"}

handler_vars == <<config, clock, phase, last_event_time, active_clip, person_present,
                  last_seen_time, open_writers, effects, call, ret, hist>>

\* main() after PersonDetector() and EventHandler() were constructed
MainInit ==
    /\ config \in MainConfigs
    /\ HandlerInit
    /\ \E k \in FrameSkipChoices :
          loop = [LoopOff EXCEPT !.pc = "open_camera", !.FRAME_SKIP = k]
    /\ senders = SendersOff
    /\ ServerInit

\* open_camera() returns the capture
OpenCamera ==
    /\ loop.pc = "open_camera"
    /\ loop' = [loop EXCEPT !.pc = "loop"]
    /\ UNCHANGED <<server_vars, handler_vars, senders>>

\* open_camera() finds the camera closed: sys.exit(1), before main() enters its try
CameraFails ==
    /\ loop.pc = "open_camera"
    /\ loop' = [loop EXCEPT !.pc = "exited"]
    /\ UNCHANGED <<server_vars, handler_vars, senders>>

\* a loop in which a failed read counts as a frame
retry_read_counted(l) ==
    [l EXCEPT !.step = "read_failed", !.detected = FALSE, !.frame = NoFrame,
              !.frame_count = @ + 1]

\* the loop's locals after "if not ret: ... continue": nothing but the retry
retry_read(l) == [l EXCEPT !.step = "read_failed", !.detected = FALSE, !.frame = NoFrame]

\* cap.read() returns no frame: sleep and retry
ReadFail ==
    /\ loop.pc = "loop"
    /\ loop' = retry_read(loop)
    /\ UNCHANGED <<server_vars, handler_vars, senders>>

DetectDueOffByOne(count, skip) == (count - 1) % skip = 0

\* a loop that runs the detector once, on the first frame that is due
DetectDueFirstOnly(count, skip) == count = skip

DetectDue(count, skip) == count % skip = 0

IsPausedNever(l) == FALSE

IsPaused(l) == l.paused

\* a frame read while paused: shown, the key is read, nothing else
PausedFrame ==
    /\ loop.pc = "loop"
    /\ IsPaused(loop)
    /\ loop.frame_count < MaxFrameCount
    /\ \E key \in Keys :
          loop' = [loop EXCEPT !.frame_count = @ + 1,
                               !.step = "paused_frame",
                               !.frame = [id |-> loop.frame_count + 1, drawn |-> FALSE],
                               !.detected = FALSE,
                               !.prev = loop.detections,
                               !.pause_len = @ + 1,
                               !.resumed = FALSE,
                               !.missed_due =
                                   @ \/ DetectDue(loop.frame_count + 1, loop.FRAME_SKIP),
                               !.pc = IF key = "q" THEN "finally" ELSE "loop",
                               !.paused = IF key = " " THEN FALSE ELSE @]
    /\ UNCHANGED <<server_vars, handler_vars, senders>>

\* a frame read while running: detect if due, handle, draw, read the key,
\* which is one of keys; the detector finds one of people persons
FrameOn(keys, people) ==
    /\ loop.pc = "loop"
    /\ ~IsPaused(loop)
    /\ loop.frame_count < MaxFrameCount
    /\ \E d \in people, key \in keys, now \in clock..Min(clock + MaxStep, MaxClock) :
          LET count == loop.frame_count + 1
              due   == DetectDue(count, loop.FRAME_SKIP)
              dets  == IF due THEN [n |-> d, of |-> count] ELSE loop.detections
          IN  /\ HandleCall([id |-> count, drawn |-> FALSE], now, dets.n)
              /\ loop' = [loop EXCEPT !.frame_count = count,
                                      !.frame = [id |-> count, drawn |-> TRUE],
                                      !.step = "frame",
                                      !.detected = due,
                                      !.prev = loop.detections,
                                      !.detections = dets,
                                      !.handled = count,
                                      !.pause_len = 0,
                                      !.resumed = (loop.pause_len > 0),
                                      !.missed_due = IF due THEN FALSE ELSE @,
                                      !.pc = IF key = "q" THEN "finally" ELSE "loop",
                                      !.paused = (key = " ")]
    /\ UNCHANGED <<server_vars, config, phase>>

Frame == FrameOn(Keys, 0..MaxPeople)

\* a frame read while running on which detector.detect raises: the exception
\* leaves the loop and main() through its finally clause
DetectorRaises ==
    /\ loop.pc = "loop"
    /\ ~IsPaused(loop)
    /\ loop.frame_count < MaxFrameCount
    /\ DetectDue(loop.frame_count + 1, loop.FRAME_SKIP)
    /\ loop' = [loop EXCEPT !.frame_count = @ + 1,
                            !.frame = [id |-> loop.frame_count + 1, drawn |-> FALSE],
                            !.step = "frame",
                            !.detected = TRUE,
                            !.prev = loop.detections,
                            !.pause_len = 0,
                            !.resumed = (loop.pause_len > 0),
                            !.pc = "finally"]
    /\ UNCHANGED <<server_vars, handler_vars, senders>>

\* Ctrl+C while the loop waits for the next frame
Interrupt ==
    /\ loop.pc = "loop"
    /\ loop' = [loop EXCEPT !.pc = "finally"]
    /\ UNCHANGED <<server_vars, handler_vars, senders>>

\* the finally clause of main()
Finally ==
    /\ loop.pc = "finally"
    /\ ShutdownCall
    /\ loop' = [loop EXCEPT !.pc = "done", !.shutdowns = @ + 1]

MainNext ==
    \/ OpenCamera
    \/ CameraFails
    \/ ReadFail
    \/ PausedFrame
    \/ Frame
    \/ DetectorRaises
    \/ Interrupt
    \/ Finally

MainSpec == MainInit /\ [][MainNext]_vars

\* ------------------------------------- main() with the notifier's threads
\* main() after its constructors, with the thread of the session-start message
SinkInit ==
    /\ config \in MainConfigs
    /\ HandlerInit
    /\ loop = [LoopOff EXCEPT !.pc = "open_camera"]
    /\ senders = Dispatch(SendersOn, effects, NoFrame)
    /\ ServerInit

\* a sender thread runs its target: one requests.post, with whatever comes of it
Post ==
    /\ senders.on
    /\ \E i \in 1..Len(senders.tasks), outcome \in Outcomes :
          /\ senders.tasks[i].state = "started"
          /\ senders' = [senders EXCEPT
                            !.tasks[i] = attempt(@, outcome, loop.frame)]
    /\ UNCHANGED <<server_vars, handler_vars, loop>>

\* the keys of a session that is watched, not operated: none, and q at its end
SinkKeys == {"", "q"}

\* and the scene it watches: nobody, or one person
SinkPeople == {0, 1}

SinkFrame == FrameOn(SinkKeys, SinkPeople)

SinkNext ==
    \/ OpenCamera
    \/ CameraFails
    \/ SinkFrame
    \/ DetectorRaises
    \/ Interrupt
    \/ Finally
    \/ Post

SinkSpec == SinkInit /\ [][SinkNext]_vars

TypeOK ==
    /\ config \in Settings
    /\ clock \in 0..MaxClock
    /\ phase \in {"running", "ended"}
    /\ last_event_time \in 0..MaxClock
    /\ last_seen_time \in 0..MaxClock
    /\ person_present \in BOOLEAN
    /\ Len(active_clip) <= 1
    /\ ret \in BOOLEAN

\* =============================================================== claims
Handled == call.op = "handle"

\* what belongs to a fired event: its log entry, snapshot, clip and notification
EventEffects(fx) ==
    Fired(fx) + Count(fx, "file", "snapshot") + Count(fx, "log", "Snapshot saved")
        + Opened(fx) + Count(fx, "log", "Recording clip")
        + Count(fx, "notify", "send_alert")

LeftLogged(fx) == Count(fx, "log", "Person left the frame")

\* C1: an event fires in a handle call exactly when person_present goes from
\* false to true in that call, and then exactly once (one log entry, one
\* notification); a call that starts with person_present = TRUE fires nothing,
\* however many detections it has.
C1_EventIffArrival ==
    Handled =>
        /\ (Fired(effects) >= 1) <=> (~call.pre.person_present /\ person_present)
        /\ Fired(effects) <= 1
        /\ Count(effects, "notify", "send_alert") = Fired(effects)
        /\ call.pre.person_present => EventEffects(effects) = 0

\* a call with several detections that found the person present and the
\* cooldown over, and one that fired
C1_Witness ==
    /\ Handled
    /\ call.pre.person_present
    /\ call.n >= 2
    /\ call.now - call.pre.last_event_time >= config.EVENT_COOLDOWN_SECONDS
    /\ config.EVENT_COOLDOWN_SECONDS > 0

\* C2: two consecutive fired events are at least EVENT_COOLDOWN_SECONDS apart.
C2_EventsCooldownApart ==
    hist.prev_fire # NoTime =>
        hist.last_fire - hist.prev_fire >= config.EVENT_COOLDOWN_SECONDS

\* a second event has just fired, after a departure, under a positive cooldown
C2_Witness ==
    /\ Handled
    /\ Fired(effects) = 1
    /\ hist.prev_fire # NoTime
    /\ config.EVENT_COOLDOWN_SECONDS > 0

\* the case of C3: detections, nobody present, cooldown not over
DroppedArrival ==
    /\ Handled
    /\ call.n > 0
    /\ ~call.pre.person_present
    /\ call.now - call.pre.last_event_time < config.EVENT_COOLDOWN_SECONDS

\* C3 as stated: a dropped arrival changes last_seen_time and nothing else; in
\* particular active_clip is unchanged and nothing is logged.
C3_DroppedArrivalOnlyLastSeen ==
    DroppedArrival =>
        /\ ~person_present
        /\ last_event_time = call.pre.last_event_time
        /\ last_seen_time = call.now
        /\ active_clip = call.pre.active_clip
        /\ effects = <<>>

\* what the feeding of an open clip may do in a call
IsClipFeed(e) ==
    \/ e.k = "clip" /\ e.m \in {"write", "close"}
    \/ e.k = "log" /\ e.m = "Clip saved"

\* C3 as amended: a dropped arrival fires no event, leaves person_present false
\* and last_event_time unchanged, opens no clip and sets last_seen_time to now;
\* besides that only the clip that was open is fed: it gets this frame and, when
\* that completes it, is saved, closed and cleared.
C3_DroppedArrivalAmended ==
    DroppedArrival =>
        /\ ~person_present
        /\ last_event_time = call.pre.last_event_time
        /\ last_seen_time = call.now
        /\ EventEffects(effects) = 0
        /\ \A i \in 1..Len(effects) : IsClipFeed(effects[i])
        /\ call.pre.active_clip = <<>> => active_clip = <<>> /\ effects = <<>>
        /\ call.pre.active_clip # <<>> =>
              \/ active_clip = <<>> /\ Count(effects, "log", "Clip saved") = 1
              \/ /\ active_clip =
                        <<[call.pre.active_clip[1] EXCEPT !.written = @ + 1]>>
                 /\ effects = <<Fx("clip", "write", active_clip[1].written)>>

\* an arrival dropped after a departure, while the clip of the visit before is
\* still being recorded
C3_Witness ==
    /\ DroppedArrival
    /\ hist.last_fire # NoTime
    /\ call.pre.active_clip # <<>>
    /\ active_clip # <<>>

\* C4: in a run of frames with detections whose first frame has the cooldown
\* over, exactly one event fires, on the first frame; empty frames inside the
\* run that come less than ABSENCE_GRACE_SECONDS after the last detection cause
\* no departure and no second event, and person_present is true as long as the
\* run lasts and false once it has ended.
C4_OneEventPerVisit ==
    /\ (hist.in_visit /\ hist.visit_cool_ok) =>
          /\ person_present
          /\ hist.visit_first_fired
          /\ hist.visit_fires = 1
    /\ person_present <=> (hist.in_visit /\ hist.visit_fires >= 1)
    /\ (Handled /\ call.n = 0 /\ call.pre.person_present
            /\ call.now - call.pre.last_seen_time < config.ABSENCE_GRACE_SECONDS) =>
          person_present /\ EventEffects(effects) = 0 /\ LeftLogged(effects) = 0

\* detections are back after an empty frame inside a run that fired on its
\* first frame
C4_Witness ==
    /\ Handled
    /\ call.n > 0
    /\ hist.in_visit
    /\ hist.visit_cool_ok
    /\ hist.visit_gap
    /\ hist.visit_fires = 1
    /\ person_present

\* C5: when nobody is present, an event has fired before and a frame with a
\* detection comes EVENT_COOLDOWN_SECONDS or more after it, the event fires on
\* that very frame, once.
C5_RearrivalFires ==
    (Handled /\ call.n > 0 /\ ~call.pre.person_present
        /\ call.pre.fired_before
        /\ call.now - call.pre.anchor >= config.EVENT_COOLDOWN_SECONDS) =>
      /\ Fired(effects) = 1
      /\ hist.last_fire = call.now
      /\ person_present

\* the second event of a session, on the first frame of the second visit
C5_Witness ==
    /\ Handled
    /\ call.n > 0
    /\ ~call.pre.person_present
    /\ hist.prev_fire # NoTime
    /\ hist.last_fire = call.now
    /\ hist.visit_first_fired
    /\ config.EVENT_COOLDOWN_SECONDS > 0

\* the case of C6: an empty frame while the person counts as present
EmptyWhilePresent == Handled /\ call.n = 0 /\ call.pre.person_present

\* C6 as stated: person_present falls exactly when the empty time exceeds
\* ABSENCE_GRACE_SECONDS, and stays true when the empty time equals it.
C6_DepartureWhenExceeded ==
    EmptyWhilePresent =>
        /\ ~person_present <=>
              (call.now - call.pre.last_seen_time > config.ABSENCE_GRACE_SECONDS)
        /\ LeftLogged(effects) = (IF person_present THEN 0 ELSE 1)

\* C6 as amended: person_present falls, with one "left the frame" entry,
\* exactly when the empty time has reached ABSENCE_GRACE_SECONDS (>=).
C6_DepartureWhenReached ==
    EmptyWhilePresent =>
        /\ ~person_present <=>
              (call.now - call.pre.last_seen_time >= config.ABSENCE_GRACE_SECONDS)
        /\ LeftLogged(effects) = (IF person_present THEN 0 ELSE 1)

\* a departure confirmed at exactly ABSENCE_GRACE_SECONDS of empty time
C6_Witness ==
    /\ EmptyWhilePresent
    /\ call.now - call.pre.last_seen_time = config.ABSENCE_GRACE_SECONDS
    /\ ~person_present
    /\ LeftLogged(effects) = 1

\* C7: an empty frame while nobody is present fires nothing, logs no departure
\* and leaves person_present, last_seen_time and last_event_time as they were.
C7_EmptyWhileAbsentIsNoOp ==
    (Handled /\ call.n = 0 /\ ~call.pre.person_present) =>
        /\ ~person_present
        /\ EventEffects(effects) = 0
        /\ LeftLogged(effects) = 0
        /\ last_seen_time = call.pre.last_seen_time
        /\ last_event_time = call.pre.last_event_time

\* an empty frame well after a departure, no clip being recorded
C7_Witness ==
    /\ Handled
    /\ call.n = 0
    /\ ~call.pre.person_present
    /\ hist.last_fire # NoTime
    /\ ~hist.in_visit
    /\ call.now - last_seen_time > config.ABSENCE_GRACE_SECONDS
    /\ effects = <<>>

\* CLIP_DURATION_S * CLIP_FPS, doubled (the duration is kept in half seconds)
TwiceProduct(cfg) == cfg.CLIP_DURATION_HALF_S * cfg.CLIP_FPS

\* round(x) for x = num / 2, halves going to the even neighbour
Round2(num) ==
    LET q == num \div 2
    IN  IF num % 2 = 0 THEN q ELSE IF q % 2 = 0 THEN q ELSE q + 1

\* the whole number k with k <= num / 2 < k + 1
Floor2(num) == CHOOSE k \in 0..num : 2 * k <= num /\ num < 2 * (k + 1)

\* a handle call has just finalized a clip by itself
AutoFinalized == Handled /\ hist.closed_frames # NoTime

\* the timing settings are meaningful ones
PositiveTiming ==
    config.EVENT_COOLDOWN_SECONDS > 0 /\ config.ABSENCE_GRACE_SECONDS > 0

\* C8 as stated: an auto-finalized clip holds exactly
\* round(CLIP_DURATION_S * CLIP_FPS) frames (looked at under meaningful timing
\* settings only).
C8_ClipLengthIsRounded ==
    (AutoFinalized /\ PositiveTiming) =>
        hist.closed_frames = Round2(TwiceProduct(config))

\* C8 as amended: an auto-finalized clip holds exactly
\* int(CLIP_DURATION_S * CLIP_FPS) frames, the product cut to a whole number;
\* no clip file ever holds more, the writer's counter is the number of frames
\* in the file, and a write on a finished clip adds nothing.
C8_ClipLengthIsTruncated ==
    /\ AutoFinalized => hist.closed_frames = Floor2(TwiceProduct(config))
    /\ hist.file_frames <= Floor2(TwiceProduct(config))
    /\ active_clip # <<>> => active_clip[1].written = hist.file_frames
    /\ (Handled /\ call.pre.active_clip # <<>>
            /\ call.pre.active_clip[1].written >= Floor2(TwiceProduct(config))) =>
          hist.closed_frames = call.pre.active_clip[1].written

\* a clip whose product is not whole was closed by the call after the one that
\* opened it: the write of that call came after the clip was finished
C8_Witness ==
    /\ AutoFinalized
    /\ TwiceProduct(config) % 2 = 1
    /\ hist.closed_frames = 1
    /\ call.pre.active_clip = <<[written |-> 1, max_frames |-> 1, opened |-> TRUE]>>
    /\ Count(effects, "clip", "write") = 0

\* an event has fired in a call that found a clip open and did not finish it
FiredDuringClip ==
    /\ Handled
    /\ Fired(effects) = 1
    /\ call.pre.active_clip # <<>>
    /\ Count(effects, "clip", "close") = 0

\* C9: at most one clip writer is open at any time; an event that fires while
\* a clip is being recorded opens no second writer, and its log entry, its
\* snapshot (when snapshots are saved) and its notification still happen.
C9_AtMostOneClipOpen ==
    /\ open_writers <= 1
    /\ open_writers = Len(active_clip)
    /\ FiredDuringClip =>
          /\ Opened(effects) = 0
          /\ active_clip # <<>>
          /\ Count(effects, "notify", "send_alert") = 1
          /\ Count(effects, "file", "snapshot") = (IF config.SAVE_SNAPSHOTS THEN 1 ELSE 0)

\* a second event fired while the clip of the first was still being recorded
C9_Witness ==
    /\ FiredDuringClip
    /\ config.SAVE_CLIPS
    /\ hist.prev_fire # NoTime
    /\ open_writers = 1

\* C10: every fired event gets a clip of its own when clips are saved: an
\* event is without its clip only while the clip before it is being recorded
\* (looked at under meaningful timing settings only).
C10_EveryEventGetsItsClip ==
    (phase = "running" /\ config.SAVE_CLIPS /\ PositiveTiming /\ hist.owed_clip) =>
        active_clip # <<>>

\* the whole number of frames a clip is to hold
Target == Floor2(TwiceProduct(config))

\* the timing settings are meaningful and a clip is to hold a frame at least
SoundSettings == PositiveTiming /\ Target >= 1

\* a handle call found a clip open
FoundClipOpen == Handled /\ call.pre.active_clip # <<>>

\* C11: a handle call that finds a clip open writes exactly one frame to it,
\* before anything else, whatever the detections and the presence flag; the
\* clip is saved, closed and cleared in the call whose frame reaches the
\* target, and stays open otherwise (looked at under meaningful timing
\* settings and clips of one frame or more only).
C11_OpenClipGetsEveryFrame ==
    (FoundClipOpen /\ SoundSettings) =>
        LET w == call.pre.active_clip[1].written
        IN  /\ Len(effects) >= 1
            /\ effects[1] = Fx("clip", "write", w + 1)
            /\ IF w + 1 = Target
               THEN /\ active_clip = <<>> \/ Opened(effects) = 1
                    /\ hist.closed_frames = Target
                    /\ Count(effects, "log", "Clip saved") = 1
               ELSE /\ active_clip # <<>>
                    /\ active_clip[1].written = w + 1
                    /\ hist.closed_frames = NoTime

\* C12 as stated: the call that opens a clip writes its frame to it, so the
\* clip holds one frame when the call returns, for every clip length (looked
\* at under meaningful timing settings only).
C12_TriggerFrameIsFirstFrame ==
    (Handled /\ Opened(effects) = 1 /\ PositiveTiming) =>
        /\ active_clip # <<>>
        /\ active_clip[1].written = 1
        /\ hist.file_frames = 1

\* C12 as amended: the call that opens a clip writes its frame to it right
\* after opening it, so the clip holds one frame when the call returns,
\* whenever the clip is to hold at least one frame; a clip of no frames is
\* opened and left empty.
C12_TriggerFrameUnlessEmptyClip ==
    (Handled /\ Opened(effects) = 1) =>
        LET o == First(Idx(effects, "clip", "open"))
        IN  /\ active_clip # <<>>
            /\ IF Target >= 1
               THEN /\ active_clip[1].written = 1
                    /\ hist.file_frames = 1
                    /\ effects[o + 1] = Fx("clip", "write", 1)
               ELSE /\ active_clip[1].written = 0
                    /\ hist.file_frames = 0
                    /\ Count(effects, "clip", "write") = 0

\* an event has opened a clip of several frames on a frame with two detections
C12_Witness ==
    /\ Handled
    /\ Opened(effects) = 1
    /\ PositiveTiming
    /\ Target >= 2
    /\ call.n = 2
    /\ active_clip = <<[written |-> 1, max_frames |-> Target, opened |-> TRUE]>>

\* C13: when a handle call returns, a clip is held in active_clip only if an
\* event has fired and the clip has fewer frames than its target (looked at
\* under meaningful timing settings and clips of one frame or more only).
C13_NoFinishedClipHeld ==
    (Handled /\ active_clip # <<>> /\ SoundSettings) =>
        /\ hist.last_fire # NoTime
        /\ active_clip[1].written < Target

\* C14: handle returns person_present OR (active_clip is not None), taken after
\* the clip feeding and the presence logic of the call: TRUE while a clip is
\* being recorded after the departure, FALSE on a dropped arrival with no clip.
C14_ReturnsAlertActive ==
    Handled =>
        /\ ret <=> (person_present \/ active_clip # <<>>)
        /\ (~person_present /\ open_writers = 1) => ret
        /\ (DroppedArrival /\ open_writers = 0) => ~ret

\* the clip of a visit is still being recorded after the departure
C14_Witness ==
    /\ Handled
    /\ ret
    /\ ~person_present
    /\ ~hist.in_visit
    /\ hist.last_fire # NoTime
    /\ active_clip # <<>>
    /\ active_clip[1].written < Target

\* what shutdown() does after the clip, in order
SessionEnd ==
    <<Log("Security camera session ended", 0), Fx("notify", "send_session_end", 0)>>
        \o (IF config.TELEGRAM_BOT_TOKEN /\ config.TELEGRAM_CHAT_ID
            THEN <<Fx("thread", "_send_text", 1)>> ELSE <<>>)

\* C15: shutdown() with a clip open closes it with the frames it has, fewer
\* than the target, logs that, then logs the end of the session and tells the
\* notifier; with no clip open it does the last two only; active_clip is None
\* afterwards (looked at under meaningful timing settings and clips of one
\* frame or more only).
C15_ShutdownFinalizesShortClip ==
    (call.op = "shutdown" /\ SoundSettings) =>
        /\ active_clip = <<>>
        /\ open_writers = 0
        /\ IF call.pre.active_clip # <<>>
           THEN LET w == call.pre.active_clip[1].written
                IN  /\ effects = <<Fx("clip", "close", w),
                                   Log("Clip finalised on shutdown", w)>> \o SessionEnd
                    /\ hist.closed_frames = w
                    /\ w < Target
           ELSE effects = SessionEnd

\* the case of C20: the token or the chat id is missing
Unconfigured == ~config.TELEGRAM_BOT_TOKEN \/ ~config.TELEGRAM_CHAT_ID

\* entries of the event log written by a call
Logged(fx) == Cardinality({i \in 1..Len(fx) : fx[i].k = "log"})

\* entries of the event log a fired event writes by itself
EventLogged(fx) ==
    Fired(fx) + Count(fx, "log", "Snapshot saved") + Count(fx, "log", "Recording clip")

\* C20 as stated: without the token or the chat id no notifier call starts a
\* thread or writes to the event log, and the firing call does all the rest.
C20_UnconfiguredIsSilent ==
    Unconfigured =>
        /\ \A i \in 1..Len(effects) : effects[i].k # "thread"
        /\ Count(effects, "log", "[Telegram] Not configured") = 0
        /\ (Handled /\ Fired(effects) = 1) =>
              /\ Count(effects, "file", "snapshot") = (IF config.SAVE_SNAPSHOTS THEN 1 ELSE 0)
              /\ person_present

\* C20 as amended: without the token or the chat id no notifier call starts a
\* thread; session start and session end write nothing to the event log; the
\* arrival alert writes one "not configured" warning to the event log for every
\* fired event, as the last thing the firing call does, and the firing call
\* does all the rest.
C20_UnconfiguredWarnsOnAlert ==
    Unconfigured =>
        /\ \A i \in 1..Len(effects) : effects[i].k # "thread"
        /\ Count(effects, "log", "[Telegram] Not configured") =
              (IF Handled THEN Fired(effects) ELSE 0)
        /\ call.op = "init" => Logged(effects) = 0
        /\ call.op = "shutdown" =>
              Logged(effects) = 1 + Count(effects, "log", "Clip finalised on shutdown")
        /\ (Handled /\ Fired(effects) = 1) =>
              /\ effects[Len(effects)] = Log("[Telegram] Not configured", 0)
              /\ effects[Len(effects) - 1] = Fx("notify", "send_alert", call.n)
              /\ Count(effects, "file", "snapshot") = (IF config.SAVE_SNAPSHOTS THEN 1 ELSE 0)
              /\ Opened(effects) =
                    (IF config.SAVE_CLIPS
                        /\ (call.pre.active_clip = <<>>
                              \/ Count(effects, "clip", "close") = 1)
                     THEN 1 ELSE 0)
              /\ person_present

\* an event fired with the token set and the chat id missing
C20_Witness ==
    /\ Handled
    /\ Fired(effects) = 1
    /\ config.TELEGRAM_BOT_TOKEN
    /\ ~config.TELEGRAM_CHAT_ID
    /\ Count(effects, "log", "[Telegram] Not configured") = 1

\* ------------------------------------------------- claims on the frame loop
\* main() has returned, or the process has exited
SessionOver == loop.pc \in {"done", "exited"}

\* C16: on every way the session of a constructed handler ends (quit key,
\* Ctrl+C, an exception inside the frame loop, the camera not opening),
\* shutdown() has been called exactly once, after the last handle call.
C16_ShutdownOnEveryEnd ==
    SessionOver =>
        /\ loop.shutdowns = 1
        /\ phase = "ended"
        /\ call.op = "shutdown"

\* the latest iteration read a frame while the loop was not paused
RunningFrame == loop.step = "frame"

\* C17: every frame captured outside a pause is passed to handle, once and in
\* capture order, whether or not the detector ran on it: after the iteration
\* of such a frame the latest handle call is the one for that frame.
C17_EveryRunningFrameHandled ==
    RunningFrame =>
        /\ loop.handled = loop.frame_count
        /\ call.op \in {"handle", "shutdown"}

\* the latest iteration read a frame, paused or not
CapturedFrame == loop.step \in {"frame", "paused_frame"}

\* C18: the detector is invoked on a captured frame if and only if the running
\* frame counter is a multiple of FRAME_SKIP; on every other frame handle
\* receives the list of the most recent detector invocation, unchanged.
C18_DetectIffCounterDue ==
    CapturedFrame =>
        /\ loop.detected <=> (loop.frame_count % loop.FRAME_SKIP = 0)
        /\ (~loop.detected /\ Handled) =>
              /\ loop.handled = loop.frame_count
              /\ loop.detections = loop.prev
              /\ call.n = loop.detections.n

\* C18 as amended: on a frame captured outside a pause the detector is invoked
\* if and only if the frame counter, which also counts the frames read during
\* a pause, is a multiple of FRAME_SKIP, and on the other frames outside a
\* pause handle receives the list of the most recent detector invocation,
\* unchanged (the empty list before the first one); on a frame captured during
\* a pause the detector is never invoked, whatever the counter.
C18_DetectIffDueOutsidePause ==
    /\ RunningFrame => (loop.detected <=> (loop.frame_count % loop.FRAME_SKIP = 0))
    /\ loop.step = "paused_frame" => (~loop.detected /\ loop.detections = loop.prev)
    /\ (RunningFrame /\ ~loop.detected /\ Handled) =>
          /\ loop.handled = loop.frame_count
          /\ loop.detections = loop.prev
          /\ call.n = loop.detections.n
    /\ loop.detections.of = 0 => loop.detections.n = 0
    /\ loop.detections.of <= loop.frame_count
    /\ loop.detections.of % loop.FRAME_SKIP = 0

\* a skipped frame handled with the detections of an earlier frame
C18_Witness ==
    /\ RunningFrame
    /\ Handled
    /\ ~loop.detected
    /\ loop.detections.n > 0
    /\ loop.detections.of < loop.frame_count
    /\ call.n = loop.detections.n

\* C19: while the loop is paused handle is not called: whatever the loop does
\* then (read a frame, fail to read one, be interrupted), person_present,
\* last_seen_time, last_event_time and active_clip stay as they are, no call
\* is made and no frame is written to the open clip.
C19_PausedLeavesHandlerAlone ==
    [][(loop.paused /\ loop.pc = "loop") =>
          UNCHANGED <<person_present, last_seen_time, last_event_time, active_clip,
                      open_writers, effects, call, ret, hist>>]_vars

\* two frames read during a pause that began with a person present and a clip open
C19_Witness ==
    /\ loop.paused
    /\ loop.step = "paused_frame"
    /\ loop.pause_len >= 2
    /\ person_present
    /\ active_clip # <<>>
    /\ ~is_finished(active_clip[1])

\* --------------------------------------------- claims on errors and faults
\* settings with a cooldown or a grace period that is not positive
NonPositiveTiming ==
    \/ config.EVENT_COOLDOWN_SECONDS <= 0
    \/ config.ABSENCE_GRACE_SECONDS <= 0

\* C25: a handler is never constructed with a non-positive cooldown or grace
\* period: with such settings construction is rejected, so no handle call
\* ever runs under them.
C25_NonPositiveTimingRejected ==
    NonPositiveTiming => ~Handled

\* the latest iteration read a frame on which the detector raised
DetectorFailed ==
    /\ RunningFrame
    /\ loop.detected
    /\ loop.handled # loop.frame_count

\* C26: a detector failure on a frame skips that frame: the loop is still
\* running after it and goes on to the next frame.
C26_DetectorFailureSkipsFrame ==
    DetectorFailed => (loop.pc = "loop" /\ phase = "running")

\* ------------------------------------------ claims on the cooldown boundary
\* a call with detections inside a run of detections whose first frame was
\* held back by the cooldown, with nobody counted as present so far
InSuppressedRun ==
    /\ Handled
    /\ call.n > 0
    /\ hist.in_visit
    /\ ~hist.visit_cool_ok
    /\ ~call.pre.person_present

\* C29: when detections go on after an arrival was held back by the cooldown,
\* the event fires on the first call at which now - (time of the last event)
\* has reached EVENT_COOLDOWN_SECONDS, with no empty frame needed in between,
\* and the frame of that call is the one in the snapshot, at the head of the
\* clip and in the notification; until then nothing fires.
C29_SuppressedArrivalFiresWhenCooldownClears ==
    InSuppressedRun =>
        IF call.now - call.pre.anchor >= config.EVENT_COOLDOWN_SECONDS
        THEN /\ Fired(effects) = 1
             /\ person_present
             /\ last_event_time = call.now
             /\ Count(effects, "notify", "send_alert") = 1
             /\ \A i \in 1..Len(effects) :
                   effects[i].m \in {"PERSON DETECTED", "snapshot", "send_alert"}
                       => effects[i].v = call.n
             /\ Count(effects, "file", "snapshot") =
                   (IF config.SAVE_SNAPSHOTS THEN 1 ELSE 0)
             /\ (Opened(effects) = 1 /\ MaxFrames(config) >= 1) =>
                   effects[First(Idx(effects, "clip", "open")) + 1]
                       = Fx("clip", "write", 1)
        ELSE /\ EventEffects(effects) = 0
             /\ ~person_present
             /\ last_event_time = call.pre.last_event_time

\* the event of a re-arrival fired on a later frame of an unbroken run of
\* detections that began inside the cooldown
C29_Witness ==
    /\ InSuppressedRun
    /\ ~hist.visit_gap
    /\ call.pre.fired_before
    /\ call.pre.last_seen_time > call.pre.anchor
    /\ Fired(effects) = 1
    /\ Opened(effects) = 1
    /\ config.EVENT_COOLDOWN_SECONDS > 0

\* a call with detections before any event of the session has fired
BeforeFirstEvent == Handled /\ call.n > 0 /\ ~call.pre.fired_before

C28_FailedReadLeavesAllAlone ==
    [][(loop.pc = "loop" /\ loop'.pc = "loop" /\ loop'.step = "read_failed") =>
          /\ UNCHANGED handler_vars
          /\ loop'.frame_count = loop.frame_count
          /\ loop'.detections = loop.detections
          /\ loop'.handled = loop.handled
          /\ loop'.paused = loop.paused
          /\ ~loop'.detected]_vars

\* a read that failed while a person was present and a clip was being recorded
C28_Witness ==
    /\ loop.step = "read_failed"
    /\ loop.pc = "loop"
    /\ loop.frame_count >= 1
    /\ person_present
    /\ active_clip # <<>>

\* --------------------------------------------- claims on the clip file
\* an event that is due a clip while no clip file can be opened
ClipOpenFailed ==
    /\ Handled
    /\ Fired(effects) = 1
    /\ config.SAVE_CLIPS
    /\ ~config.CLIPS_DIR_WRITABLE
    /\ call.pre.active_clip = <<>>

\* the entries the handler and the notifier write at level INFO
InfoEntries ==
    {"PERSON DETECTED", "Snapshot saved", "Recording clip", "Clip saved",
     "Person left the frame", "Clip finalised on shutdown",
     "Security camera session ended"}

Warnings(fx) ==
    Cardinality({i \in 1..Len(fx) : fx[i].k = "log" /\ fx[i].m \notin InfoEntries})

\* C27: when the clip file of an event cannot be opened, a warning is
\* surfaced, the call returns, the event's log entry, snapshot and notification
\* are produced, and active_clip stays empty for that event.
C27_ClipOpenFailureIsNonFatal ==
    ClipOpenFailed =>
        /\ Warnings(effects) >= 1
        /\ Count(effects, "notify", "send_alert") = 1
        /\ Count(effects, "file", "snapshot") = (IF config.SAVE_SNAPSHOTS THEN 1 ELSE 0)
        /\ active_clip = <<>>
        /\ open_writers = 0

\* ------------------------------------------ claims on the notifier's threads
Tasks == senders.tasks

IsPhoto(t) == t.target = "_send_photo_bytes"

RECURSIVE Sum(_, _)
Sum(f, n) == IF n = 0 THEN 0 ELSE f[n] + Sum(f, n - 1)

\* requests made so far, over all threads
TotalPosts(snd) == Sum([i \in 1..Len(snd.tasks) |-> snd.tasks[i].posts], Len(snd.tasks))

\* threads the latest call started
Fresh == {i \in 1..Len(Tasks) : Tasks[i].fresh}

ThreadsAsked(fx) ==
    Count(fx, "thread", "_send_photo_bytes") + Count(fx, "thread", "_send_text")

\* C21: with the sink set up, the network I/O of a notification is done by a
\* thread the call started and by nothing else: each call of the handler
\* starts one thread per notification and returns, and every step that makes a
\* request, whatever comes of it, is a step of a thread that leaves the
\* handler, its latest call and the frame loop as they are.
C21_SendsRunInBackground ==
    /\ [](Cardinality(Fresh) = ThreadsAsked(effects))
    /\ [][TotalPosts(senders') # TotalPosts(senders) =>
             UNCHANGED <<handler_vars, loop>>]_vars

\* a handle call that fired nothing has returned while the photo of an earlier
\* event is still on its way
C21_Witness ==
    /\ Handled
    /\ Fired(effects) = 0
    /\ \E i \in 1..Len(Tasks) :
          /\ IsPhoto(Tasks[i])
          /\ ~Tasks[i].fresh
          /\ Tasks[i].state = "started"
          /\ Tasks[i].posts = 0

C24_LogHasSingleWriter ==
    \A i \in 1..Len(Tasks) : Tasks[i].warnings = 0

\* ------------------------------------------- claims on presence and clips
\* person_present fell in the latest call
Fell == call.pre.person_present /\ ~person_present

\* C31: person_present never falls in a handle call with a detection; it falls
\* on calls with no detection only, each fall logs exactly one "left the frame"
\* entry and no call logs one without a fall, and no call both fires an event
\* and confirms a departure.
C31_PresenceFallsOnEmptyFramesOnly ==
    Handled =>
        /\ (call.n >= 1 /\ call.pre.person_present) => person_present
        /\ Fell => call.n = 0
        /\ LeftLogged(effects) = (IF Fell THEN 1 ELSE 0)
        /\ ~(Fired(effects) >= 1 /\ LeftLogged(effects) >= 1)

\* a departure confirmed by a call that also fed the clip of the visit
C31_Witness ==
    /\ Handled
    /\ Fell
    /\ LeftLogged(effects) = 1
    /\ Count(effects, "clip", "write") = 1
    /\ hist.last_fire # NoTime

Closes(fx) == Count(fx, "clip", "close")

\* C32: a clip that is opened is closed once, by the feeding step of handle or
\* by shutdown(): a writer is unreleased exactly while it is the active clip,
\* a call closes one clip at most and only the clip it found, a closed clip
\* is not held any more, nothing is written between a close and the next
\* open, and shutdown() leaves no clip open.
C32_ClipClosedExactlyOnce ==
    /\ open_writers = Len(active_clip)
    /\ Closes(effects) <= 1
    /\ Closes(effects) = 1 =>
          /\ call.pre.active_clip # <<>>
          /\ active_clip = <<>> \/ Opened(effects) = 1
    /\ (call.op = "shutdown" /\ call.pre.active_clip # <<>>) => Closes(effects) = 1
    /\ \A i \in Idx(effects, "clip", "write") : \A c \in Idx(effects, "clip", "close") :
          i > c => \E o \in Idx(effects, "clip", "open") : c < o /\ o < i
    /\ phase = "ended" => (active_clip = <<>> /\ open_writers = 0)

\* a call that closed the clip of the visit before and opened the clip of a
\* new event
C32_Witness ==
    /\ Handled
    /\ Closes(effects) = 1
    /\ Opened(effects) = 1
    /\ MaxFrames(config) >= 2
    /\ open_writers = 1

\* ------------------------------------------ claims on stale detections
\* the latest iteration handed its frame to handle
HandledFrame == RunningFrame /\ Handled /\ loop.handled = loop.frame_count

\* frames between the frame the detection list was computed from and the
\* frame it was passed with
DetectionAge == loop.frame_count - loop.detections.of

\* C33: the detection list passed to handle for a frame was produced by the
\* detector from that frame or from one at most FRAME_SKIP - 1 frames earlier,
\* right after a pause and on the first frames of a session too.
C33_DetectionAgeBounded ==
    HandledFrame =>
        /\ loop.detections.of >= 1
        /\ DetectionAge <= loop.FRAME_SKIP - 1

\* C33 as amended: the list passed to handle is the one of the most recent
\* detector invocation, and the empty list before the first invocation; it is
\* at most FRAME_SKIP - 1 frames old (counted from the session's start
\* before the first invocation) unless a frame whose counter was a multiple of
\* FRAME_SKIP was read during a pause since that invocation: frames read
\* during a pause advance the counter, are never detected on, and so make the
\* list older than FRAME_SKIP - 1 after the pause.
C33_DetectionAgeBoundedUnlessPaused ==
    HandledFrame =>
        /\ loop.detections.of = 0 => call.n = 0
        /\ call.n = loop.detections.n
        /\ DetectionAge >= 0
        /\ loop.detections.of % loop.FRAME_SKIP = 0
        /\ ~loop.missed_due <=> DetectionAge <= loop.FRAME_SKIP - 1

\* the first frame after a pause is handled with a list that is FRAME_SKIP
\* frames old or older, the frame that was due having been read in the pause
C33_Witness ==
    /\ HandledFrame
    /\ loop.resumed
    /\ loop.missed_due
    /\ ~loop.detected
    /\ DetectionAge >= loop.FRAME_SKIP
    /\ loop.FRAME_SKIP >= 2

\* the first call of handle after a pause
FirstResumedCall == HandledFrame /\ loop.resumed

\* C34: the grace period and the cooldown are measured on the clock, and the
\* time of a pause counts toward both: the first call after a pause with no
\* detection confirms the departure at once when the pause took the empty time
\* to ABSENCE_GRACE_SECONDS, and the first call after a pause with a detection
\* and nobody present fires when the pause took the time since the last
\* event to EVENT_COOLDOWN_SECONDS.
C34_PauseTimeCounts ==
    FirstResumedCall =>
        /\ (call.n = 0 /\ call.pre.person_present
               /\ call.now - call.pre.last_seen_time >= config.ABSENCE_GRACE_SECONDS)
              => (~person_present /\ LeftLogged(effects) = 1)
        /\ (call.n > 0 /\ ~call.pre.person_present
               /\ call.now - call.pre.last_event_time >= config.EVENT_COOLDOWN_SECONDS)
              => (person_present /\ Fired(effects) = 1)

\* a departure confirmed by the first call after a pause that was longer than
\* the grace period, the person having been seen on the last frame before it
C34_Witness ==
    /\ FirstResumedCall
    /\ call.n = 0
    /\ call.pre.person_present
    /\ ~person_present
    /\ call.pre.last_seen_time = call.pre.last_event_time
    /\ call.now - call.pre.last_seen_time > config.ABSENCE_GRACE_SECONDS
    /\ call.now - call.pre.last_seen_time < 2 * config.ABSENCE_GRACE_SECONDS

\* ===================================================== backend: pairing
\* the agent_vars of the camera program, which the backend never touches
agent_vars == <<config, clock, phase, last_event_time, active_clip, person_present,
                last_seen_time, open_writers, effects, call, ret, hist, loop, senders>>

\* datetime.now(timezone.utc) moves on
Tick ==
    /\ utc < MaxClock
    /\ utc' = utc + 1
    /\ UNCHANGED <<agent_vars, db, requests, outbox, sockets, active_connections>>

\* the workers that serve POST /devices/pair, and the codes they are sent
PairRequests == {1, 2, 3}
PairCodesSent == {"SC-A", "SC-X"}
ExpiryChoices == {1, 2}

\* a worker of the thread pool with no request
Idle == [pc |-> "idle", pair_code |-> "", waited |-> FALSE, status |-> 0, detail |-> "",
         device_id |-> 0, at |-> 0]

\* a user has made the code SC-A with POST /pair-codes; no device is paired yet
PairInit ==
    /\ config \in MainConfigs
    /\ HandlerInit
    /\ loop = LoopOff
    /\ senders = SendersOff
    /\ utc = 0
    /\ \E e \in ExpiryChoices :
          db = [EmptyDb EXCEPT !.pair_codes = [c \in {"SC-A"} |-> PairCode(c, e)]]
    /\ requests = [r \in PairRequests |-> Idle]
    /\ outbox = <<>>
    /\ sockets = <<>>
    /\ active_connections = <<>>

\* a query that takes no lock
RowLockIgnored(dbs, code, r) == TRUE

\* with_for_update(): the row is read once no other transaction holds its lock
RowLockFree(dbs, code, r) == \A l \in dbs.locks : l[1] = code => l[2] = r

\* the session of request r is closed: its transaction ends and its locks go
Release(dbs, r) == [dbs EXCEPT !.locks = {l \in @ : l[2] # r}]

\* the filter of the query: a row with this code that is not used
Unused(dbs, code) == code \in DOMAIN dbs.pair_codes /\ ~dbs.pair_codes[code].used

\* pair_device is called; its query is sent to the database
PairArrive ==
    \E r \in PairRequests, code \in PairCodesSent :
       /\ requests[r].pc = "idle"
       /\ requests' = [requests EXCEPT
                          ![r] = [@ EXCEPT !.pc = "query", !.pair_code = code,
                                           !.waited = ~RowLockFree(db, code, r)]]
       /\ UNCHANGED <<agent_vars, utc, db, outbox, sockets, active_connections>>

\* the query returns: the unused row, locked for this transaction, or None and 400
PairQuery ==
    \E r \in PairRequests :
       LET code == requests[r].pair_code
       IN  /\ requests[r].pc = "query"
           /\ RowLockFree(db, code, r)
           /\ IF Unused(db, code)
              THEN /\ db' = [db EXCEPT !.locks = @ \cup {<<code, r>>}]
                   /\ requests' = [requests EXCEPT ![r] = [@ EXCEPT !.pc = "found"]]
              ELSE /\ db' = Release(db, r)
                   /\ requests' = [requests EXCEPT
                                      ![r] = [@ EXCEPT !.pc = "done", !.status = 400,
                                                       !.detail = "Invalid or expired pair code",
                                                       !.at = utc]]
           /\ UNCHANGED <<agent_vars, utc, outbox, sockets, active_connections>>

\* the rest of pair_device: the expiry test, then used = True, the device and the commit
PairRedeem ==
    \E r \in PairRequests :
       LET code == requests[r].pair_code
           row == db.pair_codes[code]
       IN  /\ requests[r].pc = "found"
           /\ IF utc > row.expires_at
              THEN /\ db' = Release(db, r)
                   /\ requests' = [requests EXCEPT
                                      ![r] = [@ EXCEPT !.pc = "done", !.status = 400,
                                                       !.detail = "Pair code has expired",
                                                       !.at = utc]]
              ELSE /\ db' = Release([db EXCEPT
                                        !.pair_codes[code].used = TRUE,
                                        !.devices = Append(@, Device(<<"token", r>>, utc))], r)
                   /\ requests' = [requests EXCEPT
                                      ![r] = [@ EXCEPT !.pc = "done", !.status = 200,
                                                       !.device_id = Len(db.devices) + 1,
                                                       !.at = utc]]
           /\ UNCHANGED <<agent_vars, utc, outbox, sockets, active_connections>>

PairNext == Tick \/ PairArrive \/ PairQuery \/ PairRedeem

PairSpec == PairInit /\ [][PairNext]_vars

\* the requests that were answered with this status
Answered(status) == {r \in DOMAIN requests : requests[r].pc = "done" /\ requests[r].status = status}

\* C35: a pair code is redeemed at most once: at most one request is answered
\* 200 and there are as many devices as such answers; a request answered while
\* the code is used, or after the code expired, is answered 400, makes no
\* device and leaves the code as it was; this holds for requests that waited
\* for the row while another held it
C35_PairCodeRedeemedOnce ==
    /\ [](/\ Cardinality(Answered(200)) <= 1
          /\ Len(db.devices) = Cardinality(Answered(200))
          /\ db.pair_codes["SC-A"].used <=> Answered(200) # {})
    /\ [][\A r \in PairRequests :
             (requests[r].pc # "done" /\ requests'[r].pc = "done") =>
                /\ requests'[r].pair_code = "SC-X" => requests'[r].status = 400
                /\ (db.pair_codes["SC-A"].used \/ utc > db.pair_codes["SC-A"].expires_at) =>
                      /\ requests'[r].status = 400
                      /\ db'.devices = db.devices
                      /\ db'.pair_codes = db.pair_codes
                /\ requests'[r].status = 200 =>
                      /\ ~db.pair_codes["SC-A"].used
                      /\ utc <= db.pair_codes["SC-A"].expires_at
                      /\ Len(db'.devices) = Len(db.devices) + 1]_vars

\* one request redeemed the code while another, sent with the same code, waited
\* for the row; the one that waited was answered 400 and there is one device;
\* a third request found the code expired
C35_Witness ==
    \E r1, r2, r3 \in PairRequests :
       /\ requests[r1].status = 200
       /\ requests[r2].pc = "done" /\ requests[r2].waited
       /\ requests[r2].pair_code = "SC-A" /\ requests[r2].status = 400
       /\ requests[r3].pc = "done" /\ requests[r3].pair_code = "SC-A"
       /\ requests[r3].at > db.pair_codes["SC-A"].expires_at
       /\ r3 # r2
       /\ Len(db.devices) = 1

\* ================================== backend: Telegram webhook and dashboard
\* the handlers of POST /telegram/webhook that can be in flight at once, and
\* what Telegram delivers: an update_id (0 stands for none), a chat and a text
Deliveries == {1, 2}
UpdateIds == {0, 1, 2}
Chats == {"chat1", "chat9"}
Texts == {"/start", "/arm", "/disarm", "hi"}

\* the worker that serves PATCH /devices/{device_id}
Dashboard == 0

\* what a session holds until its commit: rows to insert and the new armed
\* value of the device, if it differs from the value the session loaded
NoPending == [update |-> FALSE, otp |-> FALSE, armed |-> <<>>]

NoDelivery ==
    [pc |-> "idle", update_id |-> 0, chat |-> "", text |-> "", pending |-> NoPending,
     message |-> "", status |-> "", seq |-> 0]

\* one device is paired, its owner has linked chat1, and nothing was delivered yet
WebhookInit ==
    /\ config \in MainConfigs
    /\ HandlerInit
    /\ loop = LoopOff
    /\ senders = SendersOff
    /\ utc = 0
    /\ db = [EmptyDb EXCEPT !.devices = <<Device("tok1", 0)>>,
                            !.telegram_links = {"chat1"}]
    /\ requests = [r \in Deliveries \cup {Dashboard} |-> NoDelivery]
    /\ outbox = <<>>
    /\ sockets = <<>>
    /\ active_connections = <<>>

\* lines 84-113 for the one device of the user: the message to send and the
\* change of armed the session holds
ArmCommand(dbs, chat, text) ==
    LET target_device == dbs.devices[1]
        action_is_arm == (text = "/arm")
    IN  IF chat \notin dbs.telegram_links
        THEN [message |-> "Please link your account first", armed |-> <<>>]
        ELSE IF target_device.control_mode = "DASHBOARD_ONLY"
        THEN [message |-> "rejects Telegram controls", armed |-> <<>>]
        ELSE [message |-> IF action_is_arm THEN "is now ARMED" ELSE "is now DISARMED",
              armed |-> IF target_device.armed = action_is_arm
                        THEN <<>> ELSE <<action_is_arm>>]

\* lines 41-43: the update_id has a committed row
AlreadyProcessed(dbs, update_id) == update_id \in dbs.telegram_updates

\* telegram_webhook has returned or raised: its locals are gone, its answer stays
Answer(rq, status) ==
    [NoDelivery EXCEPT !.pc = "done", !.update_id = rq.update_id, !.status = status]

\* db.commit() of a webhook session: the unique update_id decides; the rows
\* are inserted and the changed column of the device is written
WebhookCommit(dbs, rq) ==
    IF rq.update_id \in dbs.telegram_updates
    THEN [db |-> dbs, status |-> "IntegrityError"]
    ELSE [db |-> [dbs EXCEPT
                     !.telegram_updates = @ \cup {rq.update_id},
                     !.telegram_otps = IF rq.pending.otp
                                       THEN Append(@, [chat_id |-> rq.chat,
                                                       update_id |-> rq.update_id])
                                       ELSE @,
                     !.devices[1].armed = IF rq.pending.armed = <<>>
                                          THEN @ ELSE rq.pending.armed[1]],
          status |-> "ok"]

\* telegram_webhook from its start to its first await of send_telegram_message,
\* or to its return when it sends nothing
WebhookBegin ==
    \E d \in Deliveries, update_id \in UpdateIds, chat \in Chats, text \in Texts :
       LET rq == [NoDelivery EXCEPT !.update_id = update_id, !.chat = chat, !.text = text]
           cmd == ArmCommand(db, chat, text)
           sending ==
               IF text = "/start"
               THEN [rq EXCEPT !.pc = "sending", !.message = "Your OTP is",
                               !.pending = [update |-> TRUE, otp |-> TRUE, armed |-> <<>>]]
               ELSE [rq EXCEPT !.pc = "sending", !.message = cmd.message,
                               !.pending = [update |-> TRUE, otp |-> FALSE,
                                            armed |-> cmd.armed]]
           silent == [rq EXCEPT !.pending = [NoPending EXCEPT !.update = TRUE]]
       IN  /\ requests[d].pc = "idle"
           /\ IF update_id = 0
              THEN /\ requests' = [requests EXCEPT
                                      ![d] = Answer(rq, "ignored")]
                   /\ db' = db
              ELSE IF AlreadyProcessed(db, update_id)
              THEN /\ requests' = [requests EXCEPT
                                      ![d] = Answer(rq, "already_processed")]
                   /\ db' = db
              ELSE IF text = "hi"
              THEN /\ requests' = [requests EXCEPT
                                      ![d] = Answer(rq, WebhookCommit(db, silent).status)]
                   /\ db' = WebhookCommit(db, silent).db
              ELSE /\ requests' = [requests EXCEPT ![d] = sending]
                   /\ db' = db
           /\ UNCHANGED <<agent_vars, utc, outbox, sockets, active_connections>>

\* what client.post can come to: a response of any status, or an httpx error
PostOutcomes == {"response", "HTTPError"}

\* the await returns and telegram_webhook runs to its end: the commit on a
\* response, the exception out of the handler on an error
WebhookSend ==
    \E d \in Deliveries, outcome \in PostOutcomes :
       LET rq == requests[d]
           done == WebhookCommit(db, rq)
       IN  /\ rq.pc = "sending"
           /\ IF outcome = "HTTPError"
              THEN /\ requests' = [requests EXCEPT
                                      ![d] = Answer(rq, "HTTPError")]
                   /\ UNCHANGED <<db, outbox>>
              ELSE /\ outbox' = Append(outbox, [update_id |-> rq.update_id,
                                                chat_id |-> rq.chat, text |-> rq.message])
                   /\ db' = done.db
                   /\ requests' = [requests EXCEPT
                                      ![d] = Answer(rq, done.status)]
           /\ UNCHANGED <<agent_vars, utc, sockets, active_connections>>

\* the bodies of PATCH /devices/1: every field is optional (threshold in
\* tenths); the two tuning fields are sent together or not at all
Patches ==
    {p \in [armed : {<<>>, <<TRUE>>, <<FALSE>>}, threshold : {<<>>, <<7>>},
            cooldown_sec : {<<>>, <<9>>},
            control_mode : {<<>>} \cup {<<m>> : m \in ControlMode}] :
        p.threshold = <<>> <=> p.cooldown_sec = <<>>}

\* line 39: the dashboard may arm unless the device is TELEGRAM_ONLY
DashboardMayArm(device) == device.control_mode # "TELEGRAM_ONLY"

\* update_device on the row it loaded: 403 before any assignment, or the
\* fields that were sent
update_device(device, update_data) ==
    IF update_data.armed # <<>> /\ ~DashboardMayArm(device)
    THEN [device |-> device, status |-> 403]
    ELSE [device |->
             [device EXCEPT
                 !.armed = IF update_data.armed = <<>> THEN @ ELSE update_data.armed[1],
                 !.threshold = IF update_data.threshold = <<>>
                               THEN @ ELSE update_data.threshold[1],
                 !.cooldown_sec = IF update_data.cooldown_sec = <<>>
                                  THEN @ ELSE update_data.cooldown_sec[1],
                 !.control_mode = IF update_data.control_mode = <<>>
                                  THEN @ ELSE update_data.control_mode[1]],
          status |-> 200]

\* PATCH /devices/1 by the owner of the device, from the query to the commit
UpdateDevice ==
    \E update_data \in Patches :
       LET r == update_device(db.devices[1], update_data)
       IN  /\ db' = [db EXCEPT !.devices[1] = r.device]
           /\ requests' = [requests EXCEPT
                              ![Dashboard] = [@ EXCEPT !.pc = "done",
                                                       !.status = IF r.status = 403
                                                                  THEN "403" ELSE "200",
                                                       !.seq = 1 - @]]
           /\ UNCHANGED <<agent_vars, utc, outbox, sockets, active_connections>>

WebhookNext == WebhookBegin \/ WebhookSend \/ UpdateDevice

WebhookSpec == WebhookInit /\ [][WebhookNext]_vars

\* the messages sent and the OTP rows made for an update_id
SentFor(u) == {i \in 1..Len(outbox) : outbox[i].update_id = u}
OtpsFor(u) == {i \in 1..Len(db.telegram_otps) : db.telegram_otps[i].update_id = u}

\* C36: an update_id is processed at most once: no update_id has two messages
\* sent or two OTP rows, also when its deliveries overlap or the first one
\* failed, and a delivery whose update_id is recorded returns
\* already_processed, sends nothing and changes no row
C36_UpdateProcessedAtMostOnce ==
    /\ [](\A u \in UpdateIds \ {0} :
             /\ Cardinality(SentFor(u)) <= 1
             /\ Cardinality(OtpsFor(u)) <= 1)
    /\ [][\A d \in Deliveries :
             (requests[d].pc = "idle" /\ requests'[d].pc # "idle"
                 /\ requests'[d].update_id \in db.telegram_updates) =>
                /\ requests'[d].status = "already_processed"
                /\ db' = db
                /\ outbox' = outbox]_vars

\* the step is the end of a delivery that held a change of armed
TelegramWrites(d) ==
    /\ requests[d].pc # "done" /\ requests'[d].pc = "done"
    /\ db'.devices[1].armed # db.devices[1].armed

\* the step is a PATCH
DashboardStep == requests'[Dashboard].seq # requests[Dashboard].seq

\* C37: armed is changed only through a channel the control_mode of the device
\* allows at that moment: no delivery changes armed of a DASHBOARD_ONLY device,
\* no PATCH changes armed of a TELEGRAM_ONLY device, and a PATCH answered 403
\* leaves every field of the device as it was
C37_ArmedChangedByAllowedChannelOnly ==
    [][/\ \A d \in Deliveries :
             TelegramWrites(d) => db.devices[1].control_mode # "DASHBOARD_ONLY"
       /\ DashboardStep =>
             /\ db'.devices[1].armed # db.devices[1].armed =>
                   db.devices[1].control_mode # "TELEGRAM_ONLY"
             /\ requests'[Dashboard].status = "403" => db'.devices = db.devices]_vars

\* ================================================= backend: /ws/agent
\* the websockets a session of the backend sees, each opened once
SocketIds == {1, 2, 3}
MaxBeats == 2

\* a text frame from the agent: JSON or not, its type and its device_token
TextFrame(json, type, token) == [json |-> json, type |-> type, device_token |-> token]
NotJson == TextFrame(FALSE, "", "")
FirstFrames ==
    {TextFrame(TRUE, "hello", "tok1"), TextFrame(TRUE, "hello", "tokX"), TextFrame(TRUE, "hello", ""),
     TextFrame(TRUE, "heartbeat", ""), NotJson}
LoopFrames == {TextFrame(TRUE, "heartbeat", ""), TextFrame(TRUE, "hello", "tok1"), NotJson}

\* a websocket nobody has opened yet; device_id 0 is None
NoSocket ==
    [state |-> "new", device_id |-> 0, first |-> <<>>, sent |-> <<>>, beats |-> 0,
     close_code |-> 0, nth |-> 0]

\* one device is paired with the token tok1; nothing is connected
WsInit ==
    /\ config \in MainConfigs
    /\ HandlerInit
    /\ loop = LoopOff
    /\ senders = SendersOff
    /\ utc = 0
    /\ db = [EmptyDb EXCEPT !.devices = <<Device("tok1", 0)>>]
    /\ requests = <<>>
    /\ outbox = <<>>
    /\ sockets = [s \in SocketIds |-> NoSocket]
    /\ active_connections = <<>>

\* line 55: the id of the device with this token, 0 when there is none
DeviceByToken(dbs, token) ==
    IF \E i \in 1..Len(dbs.devices) : dbs.devices[i].device_token = token
    THEN CHOOSE i \in 1..Len(dbs.devices) : dbs.devices[i].device_token = token
    ELSE 0

\* line 62: manager.active_connections[device_id] = websocket
register(conns, device_id, s) ==
    [d \in DOMAIN conns \cup {device_id} |-> IF d = device_id THEN s ELSE conns[d]]

\* ConnectionManager.disconnect: the entry of the device goes, whichever
\* websocket it holds; device_id None is not looked up
disconnect(conns, device_id) ==
    IF device_id # 0 /\ device_id \in DOMAIN conns
    THEN [d \in DOMAIN conns \ {device_id} |-> conns[d]]
    ELSE conns

\* how many websockets have been authenticated so far
Authenticated == Cardinality({s \in SocketIds : sockets[s].nth > 0})

\* line 42: websocket.accept()
WsAccept ==
    \E s \in SocketIds :
       /\ sockets[s].state = "new"
       /\ sockets' = [sockets EXCEPT ![s].state = "accepted"]
       /\ UNCHANGED <<agent_vars, utc, db, requests, outbox, active_connections>>

\* lines 47-76: the first frame is received and answered
WsHello ==
    \E s \in SocketIds, m \in FirstFrames :
       LET device_id == DeviceByToken(db, m.device_token)
           got == [sockets[s] EXCEPT !.first = <<m>>]
       IN  /\ sockets[s].state = "accepted"
           /\ IF ~m.json
              THEN \* json.loads raises: except Exception, device_id is None
                   /\ sockets' = [sockets EXCEPT
                                     ![s] = [got EXCEPT !.state = "closed",
                                                        !.close_code = 1000]]
                   /\ UNCHANGED <<db, active_connections>>
              ELSE IF m.type # "hello" \/ m.device_token = "" \/ device_id = 0
              THEN /\ sockets' = [sockets EXCEPT
                                     ![s] = [got EXCEPT !.state = "closed",
                                                        !.close_code = 4001]]
                   /\ UNCHANGED <<db, active_connections>>
              ELSE /\ active_connections' = register(active_connections, device_id, s)
                   /\ sockets' = [sockets EXCEPT
                                     ![s] = [got EXCEPT !.state = "open",
                                                        !.device_id = device_id,
                                                        !.sent = <<"init">>,
                                                        !.nth = Authenticated + 1]]
                   /\ db' = [db EXCEPT !.devices[device_id].last_seen_at = utc]
           /\ UNCHANGED <<agent_vars, utc, requests, outbox>>

\* lines 79-89 and 94-98: a frame is received in the heartbeat loop
WsReceive ==
    \E s \in SocketIds, m \in LoopFrames :
       /\ sockets[s].state = "open"
       /\ IF ~m.json
          THEN /\ active_connections' = disconnect(active_connections, sockets[s].device_id)
               /\ sockets' = [sockets EXCEPT ![s].state = "closed", ![s].close_code = 1000]
               /\ db' = db
          ELSE IF m.type = "heartbeat"
          THEN /\ sockets[s].beats < MaxBeats
               /\ db' = [db EXCEPT !.devices[sockets[s].device_id].last_seen_at = utc]
               /\ sockets' = [sockets EXCEPT ![s].beats = @ + 1,
                                             ![s].sent = Append(@, "heartbeat_ack")]
               /\ active_connections' = active_connections
          ELSE UNCHANGED <<db, sockets, active_connections>>
       /\ UNCHANGED <<agent_vars, utc, requests, outbox>>

\* lines 91-93: the agent closes its end; receive_text raises WebSocketDisconnect
WsDisconnect ==
    \E s \in SocketIds :
       /\ sockets[s].state \in {"accepted", "open"}
       /\ active_connections' = disconnect(active_connections, sockets[s].device_id)
       /\ sockets' = [sockets EXCEPT ![s].state = "closed"]
       /\ UNCHANGED <<agent_vars, utc, db, requests, outbox>>

WsNext == Tick \/ WsAccept \/ WsHello \/ WsReceive \/ WsDisconnect

WsSpec == WsInit /\ [][WsNext]_vars

\* a hello that carries the token of a device
ValidHello(m) == m.json /\ m.type = "hello" /\ DeviceByToken(db, m.device_token) # 0

\* C38: the first frame must be a hello with a known device_token: any other
\* first frame closes the socket with code 4001, with no init sent and nothing
\* registered; a valid hello is answered by one init, which stays the first and
\* only init, and every heartbeat after it by one heartbeat_ack and a fresh
\* last_seen_at
C38_HelloFirstThenHeartbeats ==
    /\ [](\A s \in SocketIds :
             /\ sockets[s].device_id = 0 => sockets[s].sent = <<>>
             /\ sockets[s].device_id # 0 =>
                   /\ sockets[s].sent[1] = "init"
                   /\ Len(sockets[s].sent) = 1 + sockets[s].beats
                   /\ \A i \in 2..Len(sockets[s].sent) : sockets[s].sent[i] = "heartbeat_ack")
    /\ [][\A s \in SocketIds :
             /\ (sockets[s].first = <<>> /\ sockets'[s].first # <<>>) =>
                   IF ValidHello(sockets'[s].first[1])
                   THEN /\ sockets'[s].state = "open"
                        /\ sockets'[s].sent = <<"init">>
                        /\ active_connections'[sockets'[s].device_id] = s
                   ELSE /\ sockets'[s].state = "closed"
                        /\ sockets'[s].close_code = 4001
                        /\ sockets'[s].sent = <<>>
                        /\ active_connections' = active_connections
             /\ sockets'[s].beats # sockets[s].beats =>
                   /\ sockets'[s].sent = Append(sockets[s].sent, "heartbeat_ack")
                   /\ db'.devices[sockets[s].device_id].last_seen_at = utc]_vars

\* the authenticated open websockets of a device
OpenFor(d) == {s \in SocketIds : sockets[s].state = "open" /\ sockets[s].device_id = d}

\* C39: the registry has an entry for a device exactly while the device has an
\* authenticated open websocket, and the entry is the newest of them
C39_RegistryTracksOpenConnections ==
    \A d \in 1..Len(db.devices) :
       /\ d \in DOMAIN active_connections <=> OpenFor(d) # {}
       /\ d \in DOMAIN active_connections =>
             /\ active_connections[d] \in OpenFor(d)
             /\ \A s \in OpenFor(d) : sockets[s].nth <= sockets[active_connections[d]].nth
====
